---- MODULE Spec2Model ----
(***************************************************************************)
(* A model of inlined.go: the .debug_ranges decoder                        *)
(* (parseDebugRangesFromELF), the name resolver (nameForSubprogram), the   *)
(* byte-extent lookup (bytesForInlinedSubroutine), the two loops of        *)
(* analyze (the DIE scan and the per-origin aggregation),                  *)
(* printSortedResults and the loop of main over the files of a batch.      *)
(*                                                                         *)
(* Machine integers are scaled: TLC's integers are 32 bits wide, so the   *)
(* 32-bit address space is modelled with 6 bits and uint64 with 8 bits.   *)
(* All uint64 arithmetic of the source is taken modulo Uint64Modulus.     *)
(* A .debug_ranges record is modelled by its two decoded fields           *)
(* <<begin, end>>; byte order only selects how the fields are decoded.    *)
(***************************************************************************)
EXTENDS Integers, Sequences, FiniteSets, TLC

\* ------------------------------------------------------------------ bounds

\* Longest .debug_ranges section, in records.
MaxRecords == 4
\* Most subprogram (or other, non-inlined) DIEs in one debug-info stream.
MaxDecls == 3
\* Most inlined-subroutine DIEs in one debug-info stream.
MaxSites == 2
\* Depth at which the Go runtime gives up on a goroutine's stack; any value
\* above MaxDecls distinguishes a cyclic chain from a finite one.
MaxStack == 8

\* Most files in one batch.
MaxFiles == 2

\* ------------------------------------------------- machine-level constants

\* Line 17: the default of the limit flag.
DefaultLimit == 100

\* math.MaxUint32, scaled to 6 bits.
MaxUint32 == 63
\* math.MaxUint64, scaled to 8 bits.
MaxUint64 == 255
Uint64Modulus == MaxUint64 + 1

ELFCLASSNONE == 0
ELFCLASS32 == 32
ELFCLASS64 == 64

\* ---------------------------------------------------------------- helpers

EmptyMap == [x \in {} |-> 0]

\* m[k] = v for a Go map m.
Put(m, k, v) == [x \in (DOMAIN m) \cup {k} |-> IF x = k THEN v ELSE m[x]]

\* m[k] with Go's zero value for a missing key.
GetOr(m, k, zero) == IF k \in DOMAIN m THEN m[k] ELSE zero

\* uint64 addition and subtraction.
AddU64(a, b) == (a + b) % Uint64Modulus
SubU64(a, b) == (a - b + Uint64Modulus) % Uint64Modulus

\* bytesPerAddress, for a known class.
bytesPerAddress(class) == IF class = ELFCLASS32 THEN 4 ELSE 8

\* len(buffer)
RecordSize(class) == 2 * bytesPerAddress(class)

\* The base-address-selection marker of the class.
MaxAddress(class) == IF class = ELFCLASS32 THEN MaxUint32 ELSE MaxUint64

\* ------------------------------------------------------------------ state

VARIABLES
    file,                \* the ELF file: Class, Data, HasRanges, Records, Tail
    pc,                  \* where analyze is
    currentOffset,       \* parseDebugRangesFromELF: start of the current list
    nextOffset,          \* parseDebugRangesFromELF: bytes read so far
    rangeSizes,          \* the range table (map offset -> span)
    rangeSizesNil,       \* TRUE when the returned table is the nil map
    err,                 \* the error analyze holds ("nil" when none)
    nd,                  \* subprogram/other DIEs read (next declaration offset)
    ns,                  \* inlined-subroutine DIEs read
    names,               \* nameMap
    specs,               \* specMap
    abstractOriginStats, \* map origin offset -> stats
    siteBag,             \* history: how often each inlined-subroutine DIE was read
    pending,             \* origins the range loop has not visited yet
    nameStats,           \* map name -> stats
    results,             \* the returned results (as a set of result records)
    limit,               \* main: *limitFlag
    nf,                  \* main: files of flag.Args() taken so far
    printed              \* main: per file taken, what was written to stdout

vars == <<file, pc, currentOffset, nextOffset, rangeSizes, rangeSizesNil, err,
          nd, ns, names, specs, abstractOriginStats, siteBag, pending,
          nameStats, results, limit, nf, printed>>

parseVars == <<currentOffset, nextOffset, rangeSizes, rangeSizesNil>>
scanVars == <<nd, ns, names, specs, abstractOriginStats, siteBag>>
resolveVars == <<pending, nameStats, results>>
mainVars == <<limit, nf, printed>>

\* ------------------------------------------------------------------ input

\* The records a section is made of: the end-of-list record, ranges (one
\* starting at address 0, one of length 0, one with end < begin) and
\* base-address selections.
RecordKinds(class) ==
    { <<0, 0>>, <<0, 10>>, <<10, 10>>, <<10, 50>>, <<50, 10>>,
      <<MaxAddress(class), 0>>, <<MaxAddress(class), 50>> }

MkFile(class, data, has, records, tail) ==
    [Class |-> class, Data |-> data, HasRanges |-> has, Records |-> records, Tail |-> tail]

\* Files that cannot be decoded at all, or have no .debug_ranges.
OddFiles ==
    { MkFile(ELFCLASS32, "ELFDATA2LSB", FALSE, <<>>, 0),
      MkFile(ELFCLASS32, "ELFDATANONE", TRUE, <<>>, 0),
      MkFile(ELFCLASSNONE, "ELFDATA2LSB", TRUE, <<>>, 0) }

\* A big-endian file.
BigEndianFile == MkFile(ELFCLASS64, "ELFDATA2MSB", TRUE, << <<10, 50>>, <<0, 0>> >>, 0)

\* No file is open yet.
NoFile == MkFile(ELFCLASSNONE, "ELFDATANONE", FALSE, <<>>, 0)

\* main, lines 296-304: elf.Open(f) succeeds and analyze is called on f.
OpenFile(f) ==
    /\ pc = "main"
    /\ nf < MaxFiles
    /\ nf' = nf + 1
    /\ file' = f
    /\ pc' = "start"
    /\ UNCHANGED <<parseVars, err, scanVars, resolveVars, limit, printed>>

\* Any file of either class with at most MaxRecords records, ending on a
\* record boundary (Tail = 0) or in a partial record of Tail bytes; or one
\* of the files above.
OpenAnyFile ==
    /\ pc = "main"
    /\ \/ \E f \in OddFiles \cup {BigEndianFile} : OpenFile(f)
       \/ \E class \in {ELFCLASS32, ELFCLASS64}, k \in 0 .. MaxRecords, tail \in {0, 4} :
              \E records \in [1 .. k -> RecordKinds(class)] :
                  OpenFile(MkFile(class, "ELFDATA2LSB", TRUE, records, tail))

\* ------------------------------------------------ parseDebugRangesFromELF

\* Records the reader has handed out so far, and the one it hands out next.
RecordsRead == nextOffset \div RecordSize(file.Class)
MoreRecords == RecordsRead < Len(file.Records)
NextRecord == file.Records[RecordsRead + 1]

\* return nil, e  /  return rangeSizes, nil
ParseReturnError(e) ==
    /\ rangeSizes' = EmptyMap
    /\ rangeSizesNil' = TRUE
    /\ err' = e
    /\ pc' = "parsed"

\* SectionIsNil with the lookup taken to succeed always.
SectionIsNil_Never(f) == FALSE

\* Lines 26-27: file.Section(".debug_ranges") == nil
SectionIsNil(f) == ~f.HasRanges

\* Lines 25-66: the section lookup, the byte order, the class, the locals.
ParseStart ==
    /\ pc = "start"
    /\ IF SectionIsNil(file)
         THEN /\ rangeSizes' = EmptyMap
              /\ rangeSizesNil' = TRUE
              /\ err' = "nil"
              /\ pc' = "parsed"
              /\ UNCHANGED <<currentOffset, nextOffset>>
       ELSE IF file.Data \notin {"ELFDATA2LSB", "ELFDATA2MSB"}
         THEN ParseReturnError("unknown byte order") /\ UNCHANGED <<currentOffset, nextOffset>>
       ELSE IF file.Class \notin {ELFCLASS32, ELFCLASS64}
         THEN ParseReturnError("unknown class") /\ UNCHANGED <<currentOffset, nextOffset>>
       ELSE /\ currentOffset' = 0
            /\ nextOffset' = 0
            /\ rangeSizes' = EmptyMap
            /\ rangeSizesNil' = FALSE
            /\ pc' = "parse"
            /\ UNCHANGED err
    /\ UNCHANGED <<mainVars, file, scanVars, resolveVars>>

\* What reader.Read(buffer) can return at the reader's position: a full
\* record (with or without an error of the underlying reader), the partial
\* record at the end of a truncated section, or nothing at end of stream.
ReaderReturns ==
    IF MoreRecords
      THEN {<<RecordSize(file.Class), "nil">>, <<RecordSize(file.Class), "EIO">>}
    ELSE IF file.Tail # 0
      THEN {<<file.Tail, "nil">>, <<file.Tail, "EOF">>}
    ELSE {<<0, "EOF">>}

\* ReadResult with the end of the stream recognised by io.EOF alone.
ReadResult_EOFAlone(n, readErr, bufferLen) ==
    IF readErr = "EOF" THEN "end of stream"
    ELSE IF n # bufferLen THEN "strange number of bytes"
    ELSE IF readErr # "nil" THEN "read error"
    ELSE "record"

\* Lines 69-75: what the loop makes of n and err.
ReadResult(n, readErr, bufferLen) ==
    IF n = 0 /\ readErr = "EOF" THEN "end of stream"
    ELSE IF n # bufferLen THEN "strange number of bytes"
    ELSE IF readErr # "nil" THEN "read error"
    ELSE "record"

ReadIs(what) ==
    \E r \in ReaderReturns : ReadResult(r[1], r[2], RecordSize(file.Class)) = what

\* Line 70: return rangeSizes, nil
ReadEOF ==
    /\ pc = "parse"
    /\ ReadIs("end of stream")
    /\ err' = "nil"
    /\ pc' = "parsed"
    /\ UNCHANGED <<mainVars, file, parseVars, scanVars, resolveVars>>

\* Line 72: the section ends in a partial record.
ReadShort ==
    /\ pc = "parse"
    /\ ReadIs("strange number of bytes")
    /\ ParseReturnError("read strange number of bytes")
    /\ UNCHANGED <<mainVars, file, currentOffset, nextOffset, scanVars, resolveVars>>

\* Line 74: a full record came with an error.
ReadIOError ==
    /\ pc = "parse"
    /\ ReadIs("read error")
    /\ ParseReturnError("read error")
    /\ UNCHANGED <<mainVars, file, currentOffset, nextOffset, scanVars, resolveVars>>

\* IsBaseAddressSelection with the 32-bit marker used for both classes.
IsBaseAddressSelection_32BitMarker(class, begin) == begin = MaxUint32

\* IsBaseAddressSelection with no record taken for a base-address selection.
IsBaseAddressSelection_Never(class, begin) == FALSE

\* Lines 82 and 88: a base-address-selection record.
IsBaseAddressSelection(class, begin) == begin = MaxAddress(class)

\* IsEndOfList with the 0,0 record taken for an ordinary range.
IsEndOfList_Never(begin, end) == FALSE

\* Line 92: an end-of-list record.
IsEndOfList(begin, end) == begin = 0 /\ end = 0

\* Line 96: bytes := end - begin, in uint64.
SpanOf(begin, end) == SubU64(end, begin)

\* ReadRecord with the start of the list moved past a base-address
\* selection.
ReadRecord_StartAfterBaseAddress ==
    /\ pc = "parse"
    /\ ReadIs("record")
    /\ LET begin == NextRecord[1]
           end == NextRecord[2]
           next == nextOffset + RecordSize(file.Class)
           bytes == SpanOf(begin, end)
       IN  /\ nextOffset' = next
           /\ IF IsBaseAddressSelection(file.Class, begin)
                THEN /\ currentOffset' = IF currentOffset \in DOMAIN rangeSizes
                                           THEN currentOffset ELSE next
                     /\ UNCHANGED <<rangeSizes, rangeSizesNil, err, pc>>
              ELSE IF IsEndOfList(begin, end)
                THEN /\ currentOffset' = next
                     /\ UNCHANGED <<rangeSizes, rangeSizesNil, err, pc>>
              ELSE /\ rangeSizes' = Put(rangeSizes, currentOffset,
                                        AddU64(GetOr(rangeSizes, currentOffset, 0), bytes))
                   /\ UNCHANGED <<currentOffset, rangeSizesNil, err, pc>>
    /\ UNCHANGED <<mainVars, file, scanVars, resolveVars>>

\* Lines 76-100: one full record was read.
ReadRecord ==
    /\ pc = "parse"
    /\ ReadIs("record")
    /\ LET begin == NextRecord[1]
           end == NextRecord[2]
           next == nextOffset + RecordSize(file.Class)
           bytes == SpanOf(begin, end)
       IN  /\ nextOffset' = next
           /\ IF IsBaseAddressSelection(file.Class, begin)
                THEN UNCHANGED <<currentOffset, rangeSizes, rangeSizesNil, err, pc>>
              ELSE IF IsEndOfList(begin, end)
                THEN /\ currentOffset' = next
                     /\ UNCHANGED <<rangeSizes, rangeSizesNil, err, pc>>
              ELSE IF bytes < 0
                THEN ParseReturnError("got invalid range") /\ UNCHANGED currentOffset
              ELSE /\ rangeSizes' = Put(rangeSizes, currentOffset,
                                        AddU64(GetOr(rangeSizes, currentOffset, 0), bytes))
                   /\ UNCHANGED <<currentOffset, rangeSizesNil, err, pc>>
    /\ UNCHANGED <<mainVars, file, scanVars, resolveVars>>

parseDebugRangesFromELF == ParseStart \/ ReadEOF \/ ReadShort \/ ReadIOError \/ ReadRecord

\* ------------------------------------------------------------ specification

\* The state when main enters its loop, with --limit=l.
Start(l) ==
    /\ limit = l
    /\ nf = 0
    /\ printed = <<>>
    /\ file = NoFile
    /\ pc = "main"
    /\ currentOffset = 0
    /\ nextOffset = 0
    /\ rangeSizes = EmptyMap
    /\ rangeSizesNil = TRUE
    /\ err = "nil"
    /\ nd = 0
    /\ ns = 0
    /\ names = EmptyMap
    /\ specs = EmptyMap
    /\ abstractOriginStats = EmptyMap
    /\ siteBag = EmptyMap
    /\ pending = {}
    /\ nameStats = EmptyMap
    /\ results = {}

\* Line 17: the default of --limit.
Init == Start(DefaultLimit)

\* ------------------------------------------------------ nameForSubprogram

\* The result of a resolution: the name and whether an error came with it;
\* overflow is the Go runtime ending the process when the recursion has
\* exhausted the goroutine's stack.
Resolved(name) == [name |-> name, err |-> FALSE, overflow |-> FALSE]
ResolveError == [name |-> "", err |-> TRUE, overflow |-> FALSE]
StackOverflow == [name |-> "", err |-> FALSE, overflow |-> TRUE]

\* nameForSubprogramAt with a single specification reference followed.
nameForSubprogramAt_OneReference(nameMap, specMap, offset, depth) ==
    LET target == IF offset \in DOMAIN specMap THEN specMap[offset] ELSE offset
    IN  IF target \in DOMAIN nameMap THEN Resolved(nameMap[target]) ELSE ResolveError

RECURSIVE nameForSubprogramAt(_, _, _, _)
nameForSubprogramAt(nameMap, specMap, offset, depth) ==
    IF depth > MaxStack THEN StackOverflow
    ELSE IF offset \in DOMAIN specMap
      THEN nameForSubprogramAt(nameMap, specMap, specMap[offset], depth + 1)
    ELSE IF offset \in DOMAIN nameMap
      THEN Resolved(nameMap[offset])
    ELSE ResolveError

nameForSubprogram(nameMap, specMap, offset) == nameForSubprogramAt(nameMap, specMap, offset, 0)

\* ------------------------------------------------ bytesForInlinedSubroutine

\* An attribute is the set of its values: empty when the DIE lacks it or when
\* the type assertion of entry.Val fails, a singleton otherwise.
Has(attr) == attr # {}
ValueOf(attr) == CHOOSE v \in attr : TRUE

Bytes(n) == [bytes |-> n, err |-> FALSE]
BytesError == [bytes |-> 0, err |-> TRUE]

\* bytesForInlinedSubroutine with the map lookup's ok left unchecked.
bytesForInlinedSubroutine_UncheckedLookup(sizes, entry) ==
    IF Has(entry.Highpc)
      THEN IF ValueOf(entry.Highpc) < 0 THEN BytesError ELSE Bytes(ValueOf(entry.Highpc))
    ELSE IF ~Has(entry.Ranges) THEN BytesError
    ELSE Bytes(GetOr(sizes, ValueOf(entry.Ranges), 0))

\* bytesForInlinedSubroutine with a span of 0 taken for a missing entry.
bytesForInlinedSubroutine_ZeroSpanIsError(sizes, entry) ==
    IF Has(entry.Highpc)
      THEN IF ValueOf(entry.Highpc) < 0 THEN BytesError ELSE Bytes(ValueOf(entry.Highpc))
    ELSE IF ~Has(entry.Ranges) THEN BytesError
    ELSE IF GetOr(sizes, ValueOf(entry.Ranges), 0) = 0 THEN BytesError
    ELSE Bytes(sizes[ValueOf(entry.Ranges)])

bytesForInlinedSubroutine(sizes, entry) ==
    IF Has(entry.Highpc)
      THEN IF ValueOf(entry.Highpc) < 0 THEN BytesError ELSE Bytes(ValueOf(entry.Highpc))
    ELSE IF ~Has(entry.Ranges) THEN BytesError
    ELSE IF ValueOf(entry.Ranges) \notin DOMAIN sizes THEN BytesError
    ELSE Bytes(sizes[ValueOf(entry.Ranges)])

\* ----------------------------------------------------------------- analyze

ZeroStats == [Count |-> 0, Bytes |-> 0]

\* Offsets a reference attribute can hold.
Offsets == 0 .. (MaxDecls - 1)
OptionalOffsets == {{}} \cup {{o} : o \in Offsets}

SubprogramEntries ==
    [Linkage : {{}, {"foo"}}, Specification : OptionalOffsets, Name : {{}, {"bar"}}]

InlinedSubroutineEntries ==
    [AbstractOrigin : {{}, {0}, {1}}, Highpc : {{}, {-1}, {8}}, Ranges : {{}, {0}}]

\* Lines 160-162: the decoder failed.
AnalyzeParseFailed ==
    /\ pc = "parsed"
    /\ err # "nil"
    /\ pc' = "failed"
    /\ UNCHANGED <<mainVars, file, parseVars, err, scanVars, resolveVars>>

\* Lines 166-169: file.DWARF() failed.
AnalyzeDWARFFailed ==
    /\ pc = "parsed"
    /\ err = "nil"
    /\ err' = "no debug info"
    /\ pc' = "failed"
    /\ UNCHANGED <<mainVars, file, parseVars, scanVars, resolveVars>>

\* Lines 173-176: the scan's tables are made; the decoder's locals are gone.
AnalyzeStartScan ==
    /\ pc = "parsed"
    /\ err = "nil"
    /\ currentOffset' = 0
    /\ nextOffset' = 0
    /\ nd' = 0
    /\ ns' = 0
    /\ names' = EmptyMap
    /\ specs' = EmptyMap
    /\ abstractOriginStats' = EmptyMap
    /\ siteBag' = EmptyMap
    /\ pc' = "scan"
    /\ UNCHANGED <<mainVars, file, rangeSizes, rangeSizesNil, err, resolveVars>>

\* ScanSubprogram with the specification reference looked at first.
ScanSubprogram_SpecificationFirst(entry) ==
    /\ pc = "scan"
    /\ nd < MaxDecls
    /\ nd' = nd + 1
    /\ IF Has(entry.Specification)
         THEN specs' = Put(specs, nd, ValueOf(entry.Specification)) /\ UNCHANGED names
       ELSE IF Has(entry.Linkage)
         THEN names' = Put(names, nd, ValueOf(entry.Linkage)) /\ UNCHANGED specs
       ELSE IF Has(entry.Name)
         THEN names' = Put(names, nd, ValueOf(entry.Name)) /\ UNCHANGED specs
       ELSE UNCHANGED <<names, specs>>
    /\ UNCHANGED <<mainVars, file, pc, parseVars, err, ns, abstractOriginStats, siteBag, resolveVars>>

\* Lines 189-201: a subprogram DIE at offset nd.
ScanSubprogram(entry) ==
    /\ pc = "scan"
    /\ nd < MaxDecls
    /\ nd' = nd + 1
    /\ IF Has(entry.Linkage)
         THEN names' = Put(names, nd, ValueOf(entry.Linkage)) /\ UNCHANGED specs
       ELSE IF Has(entry.Specification)
         THEN specs' = Put(specs, nd, ValueOf(entry.Specification)) /\ UNCHANGED names
       ELSE IF Has(entry.Name)
         THEN names' = Put(names, nd, ValueOf(entry.Name)) /\ UNCHANGED specs
       ELSE UNCHANGED <<names, specs>>
    /\ UNCHANGED <<mainVars, file, pc, parseVars, err, ns, abstractOriginStats, siteBag, resolveVars>>

\* Accumulate with s.Bytes = bytes.
Accumulate_Assign(s, bytes) == [Count |-> AddU64(s.Count, 1), Bytes |-> bytes]

\* Accumulate without s.Count++.
Accumulate_BytesOnly(s, bytes) == [Count |-> s.Count, Bytes |-> AddU64(s.Bytes, bytes)]

\* s.Count++; s.Bytes += bytes
Accumulate(s, bytes) == [Count |-> AddU64(s.Count, 1), Bytes |-> AddU64(s.Bytes, bytes)]

\* ScanInlinedSubroutine with the origin looked up in the declaration
\* tables at once: a site whose origin has not been read yet is dropped.
ScanInlinedSubroutine_ResolveAtOnce(entry) ==
    /\ pc = "scan"
    /\ ns < MaxSites
    /\ ns' = ns + 1
    /\ siteBag' = Put(siteBag, entry, GetOr(siteBag, entry, 0) + 1)
    /\ LET b == bytesForInlinedSubroutine(rangeSizes, entry)
           abstractOrigin == ValueOf(entry.AbstractOrigin)
       IN  IF ~Has(entry.AbstractOrigin) THEN UNCHANGED abstractOriginStats
           ELSE IF b.err THEN UNCHANGED abstractOriginStats
           ELSE IF abstractOrigin \notin (DOMAIN names) \cup (DOMAIN specs)
             THEN UNCHANGED abstractOriginStats
           ELSE abstractOriginStats' =
                    Put(abstractOriginStats, abstractOrigin,
                        Accumulate(GetOr(abstractOriginStats, abstractOrigin, ZeroStats), b.bytes))
    /\ UNCHANGED <<mainVars, file, pc, parseVars, err, nd, names, specs, resolveVars>>

\* Lines 202-219: an inlined-subroutine DIE.
ScanInlinedSubroutine(entry) ==
    /\ pc = "scan"
    /\ ns < MaxSites
    /\ ns' = ns + 1
    /\ siteBag' = Put(siteBag, entry, GetOr(siteBag, entry, 0) + 1)
    /\ LET b == bytesForInlinedSubroutine(rangeSizes, entry)
           abstractOrigin == ValueOf(entry.AbstractOrigin)
       IN  IF ~Has(entry.AbstractOrigin) THEN UNCHANGED abstractOriginStats
           ELSE IF b.err THEN UNCHANGED abstractOriginStats
           ELSE abstractOriginStats' =
                    Put(abstractOriginStats, abstractOrigin,
                        Accumulate(GetOr(abstractOriginStats, abstractOrigin, ZeroStats), b.bytes))
    /\ UNCHANGED <<mainVars, file, pc, parseVars, err, nd, names, specs, resolveVars>>

\* Line 188: a DIE with any other tag; it only takes up an offset.
ScanOther ==
    /\ pc = "scan"
    /\ nd < MaxDecls
    /\ nd' = nd + 1
    /\ UNCHANGED <<mainVars, file, pc, parseVars, err, ns, names, specs, abstractOriginStats, siteBag,
                   resolveVars>>

\* Lines 182-184: infoReader.Next() failed; analyze returns nil and the
\* error, and its tables are gone.
ScanError ==
    /\ pc = "scan"
    /\ err' = "decoding error"
    /\ pc' = "failed"
    /\ nd' = 0
    /\ ns' = 0
    /\ names' = EmptyMap
    /\ specs' = EmptyMap
    /\ abstractOriginStats' = EmptyMap
    /\ siteBag' = EmptyMap
    /\ rangeSizes' = EmptyMap
    /\ rangeSizesNil' = TRUE
    /\ UNCHANGED <<mainVars, file, currentOffset, nextOffset, resolveVars>>

\* Lines 185-187 and 223-224: the stream has ended; the range loop starts.
ScanEnd ==
    /\ pc = "scan"
    /\ pending' = DOMAIN abstractOriginStats
    /\ nameStats' = EmptyMap
    /\ pc' = "resolve"
    /\ UNCHANGED <<mainVars, file, parseVars, err, scanVars, results>>

\* Merge with ns.Count = s.Count; ns.Bytes = s.Bytes.
Merge_Assign(n, s) == [Count |-> s.Count, Bytes |-> s.Bytes]

\* ns.Count += s.Count; ns.Bytes += s.Bytes
Merge(n, s) == [Count |-> AddU64(n.Count, s.Count), Bytes |-> AddU64(n.Bytes, s.Bytes)]

\* The key under which the range loop files an origin's statistic.
KeyFor(r) == r.name

\* Lines 225-238: one iteration of the range loop, in Go's arbitrary map order.
ResolveOne(abstractOrigin) ==
    /\ pc = "resolve"
    /\ abstractOrigin \in pending
    /\ LET r == nameForSubprogram(names, specs, abstractOrigin)
           name == KeyFor(r)
       IN  IF r.overflow
             THEN /\ pc' = "crashed"
                  /\ UNCHANGED <<pending, nameStats>>
           ELSE /\ nameStats' = Put(nameStats, name,
                                    Merge(GetOr(nameStats, name, ZeroStats),
                                          abstractOriginStats[abstractOrigin]))
                /\ pending' = pending \ {abstractOrigin}
                /\ UNCHANGED pc
    /\ UNCHANGED <<mainVars, file, parseVars, err, scanVars, results>>

\* Lines 240-247: the results are built and returned.
AnalyzeReturn ==
    /\ pc = "resolve"
    /\ pending = {}
    /\ results' = { [Name |-> k, Count |-> nameStats[k].Count, Bytes |-> nameStats[k].Bytes] :
                      k \in DOMAIN nameStats }
    /\ pc' = "done"
    /\ UNCHANGED <<mainVars, file, parseVars, err, scanVars, pending, nameStats>>

\* Lines 177-221: the scan loop, over the DIEs the file may hold.
Scan(subprograms, inlinedSubroutines) ==
    \/ \E entry \in subprograms : ScanSubprogram(entry)
    \/ \E entry \in inlinedSubroutines : ScanInlinedSubroutine(entry)
    \/ ScanOther
    \/ ScanError
    \/ ScanEnd

\* Lines 158-176 and 223-248: analyze around the scan loop.
analyze ==
    \/ AnalyzeParseFailed
    \/ AnalyzeDWARFFailed
    \/ AnalyzeStartScan
    \/ \E abstractOrigin \in Offsets : ResolveOne(abstractOrigin)
    \/ AnalyzeReturn

\* Files for the whole analysis: a list with a span, a zero-length list, a
\* list of base-address selections only, a truncated section, and the files
\* that have no .debug_ranges or cannot be decoded.
SmallFiles ==
    OddFiles \cup
    { MkFile(ELFCLASS32, "ELFDATA2LSB", TRUE, << <<10, 50>>, <<0, 0>> >>, 0),
      MkFile(ELFCLASS32, "ELFDATA2LSB", TRUE, << <<10, 10>>, <<0, 0>> >>, 0),
      MkFile(ELFCLASS64, "ELFDATA2MSB", TRUE, << <<MaxUint64, 0>>, <<0, 0>> >>, 0),
      MkFile(ELFCLASS32, "ELFDATA2LSB", TRUE, << <<10, 50>> >>, 4) }

Next ==
    \/ pc = "main" /\ \E f \in SmallFiles : OpenFile(f)
    \/ parseDebugRangesFromELF
    \/ analyze
    \/ Scan(SubprogramEntries, InlinedSubroutineEntries)
Spec == Init /\ [][Next]_vars

\* Files with and without a range table, and the files that fail.
FewFiles ==
    OddFiles \cup
    { MkFile(ELFCLASS32, "ELFDATA2LSB", TRUE, << <<10, 50>>, <<0, 0>> >>, 0),
      MkFile(ELFCLASS32, "ELFDATA2LSB", TRUE, << <<10, 50>> >>, 4) }

\* Inlined sites whose extent is always known: high_pc 8.
PlainSites == {e \in InlinedSubroutineEntries : e.Highpc = {8} /\ e.Ranges = {}}

\* Subprogram DIEs without a specification reference.
DirectSubprograms == {e \in SubprogramEntries : e.Specification = {}}

\* Name resolution: every subprogram DIE, sites of known extent.
NextNames ==
    \/ pc = "main" /\ \E f \in SmallFiles : OpenFile(f)
    \/ parseDebugRangesFromELF
    \/ analyze
    \/ Scan(SubprogramEntries, PlainSites)
SpecNames == Init /\ [][NextNames]_vars

\* Site accounting: every inlined site, subprogram DIEs named directly.
NextSites ==
    \/ pc = "main" /\ \E f \in FewFiles : OpenFile(f)
    \/ parseDebugRangesFromELF
    \/ analyze
    \/ Scan(DirectSubprograms, InlinedSubroutineEntries)
SpecSites == Init /\ [][NextSites]_vars

\* The decoder alone, on every bounded section.
NextRanges ==
    \/ OpenAnyFile
    \/ parseDebugRangesFromELF
SpecRanges == Init /\ [][NextRanges]_vars

\* ------------------------------------------------------ printSortedResults

\* Lines 260-262: byBytes.Less
Less(a, b) == a.Bytes > b.Bytes

\* The slices sort.Sort(byBytes(results)) can leave: the results in an
\* order in which no element is Less than one before it (the sort is not
\* stable, and the slice came from a map in arbitrary order).
SortedByBytes(rs) ==
    {q \in [1 .. Cardinality(rs) -> rs] :
        /\ \A i, j \in DOMAIN q : i # j => q[i] # q[j]
        /\ \A i, j \in DOMAIN q : i < j => ~Less(q[j], q[i])}

\* Lines 266-268: limit == 0 stands for len(results).
EffectiveLimit(n, l) == IF l = 0 THEN n ELSE l

\* Line 269: results[:limit] panics when limit exceeds cap(results), which
\* is len(results) (line 240 and the appends of lines 241-246).
SliceBoundsOutOfRange(sorted, l) == EffectiveLimit(Len(sorted), l) > Len(sorted)

\* Lines 270-284: the rows written, in either format.
Rows(sorted, l) == SubSeq(sorted, 1, EffectiveLimit(Len(sorted), l))

\* -------------------------------------------------------------------- main

\* What main wrote to stdout for one file.
NoOutput == [Printed |-> FALSE, Rows |-> <<>>]
Output(rows) == [Printed |-> TRUE, Rows |-> rows]

\* Lines 298-302: elf.Open(f) failed.
MainOpenFailed ==
    /\ pc = "main"
    /\ nf < MaxFiles
    /\ nf' = nf + 1
    /\ err' = "couldn't open"
    /\ printed' = Append(printed, NoOutput)
    /\ UNCHANGED <<file, pc, parseVars, scanVars, resolveVars, limit>>

\* Lines 305-308: analyze returned an error.
MainAnalyzeFailed ==
    /\ pc = "failed"
    /\ printed' = Append(printed, NoOutput)
    /\ pc' = "main"
    /\ UNCHANGED <<file, parseVars, err, scanVars, resolveVars, limit, nf>>

\* Line 309 with lines 264-285: the results are sorted, cut and written,
\* or the slice expression ends the process.
MainPrint ==
    /\ pc = "done"
    /\ \E sorted \in SortedByBytes(results) :
           IF SliceBoundsOutOfRange(sorted, limit)
             THEN /\ pc' = "crashed"
                  /\ err' = "slice bounds out of range"
                  /\ UNCHANGED printed
           ELSE /\ printed' = Append(printed, Output(Rows(sorted, limit)))
                /\ pc' = "main"
                /\ UNCHANGED err
    /\ UNCHANGED <<file, parseVars, scanVars, resolveVars, limit, nf>>

\* The values of --limit: no limit, fewer and more than the results of a
\* file, and the default.
Limits == {0, 1, 2, DefaultLimit}

InitMain == \E l \in Limits : Start(l)

\* Inlined sites with an origin, sized directly (8 bytes) or through the
\* range table.
SizedSites ==
    {e \in InlinedSubroutineEntries :
        /\ Has(e.AbstractOrigin)
        /\ \/ e.Highpc = {8} /\ e.Ranges = {}
           \/ e.Highpc = {} /\ e.Ranges = {0}}

\* main over a batch of up to MaxFiles files, with subprogram DIEs named
\* directly.
NextMain ==
    \/ MainOpenFailed
    \/ pc = "main" /\ \E f \in FewFiles : OpenFile(f)
    \/ parseDebugRangesFromELF
    \/ analyze
    \/ Scan(DirectSubprograms, SizedSites)
    \/ MainAnalyzeFailed
    \/ MainPrint
SpecMain == InitMain /\ [][NextMain]_vars

\* Files whose section is one list without a span: a list of zero-length
\* ranges, a list of base-address selections only, a list that is its
\* end-of-list record alone, a list of a base-address selection and two
\* zero-length ranges; and a truncated section.
ListFiles ==
    { MkFile(ELFCLASS32, "ELFDATA2LSB", TRUE, << <<10, 10>>, <<0, 0>> >>, 0),
      MkFile(ELFCLASS64, "ELFDATA2MSB", TRUE, << <<MaxUint64, 0>>, <<0, 0>> >>, 0),
      MkFile(ELFCLASS32, "ELFDATA2LSB", TRUE, << <<0, 0>> >>, 0),
      MkFile(ELFCLASS32, "ELFDATA2LSB", TRUE,
             << <<MaxUint32, 50>>, <<10, 10>>, <<50, 50>>, <<0, 0>> >>, 0),
      MkFile(ELFCLASS32, "ELFDATA2LSB", TRUE, << <<10, 10>> >>, 4) }

\* Sites that refer to such lists: subprogram DIEs named directly.
NextLists ==
    \/ pc = "main" /\ \E f \in ListFiles : OpenFile(f)
    \/ parseDebugRangesFromELF
    \/ analyze
    \/ Scan(DirectSubprograms, SizedSites)
SpecLists == Init /\ [][NextLists]_vars

\* ================================================================ claims

\* The name under which nameForSubprogram leaves an origin: the resolved
\* name, or the empty string that comes with a resolution error.
OriginName(o) == nameForSubprogram(names, specs, o).name

\* The origins the range loop has been through.
Visited == (DOMAIN abstractOriginStats) \ pending

\* The component-wise uint64 sum of the per-origin statistics of S.
RECURSIVE SumStats(_)
SumStats(S) ==
    IF S = {} THEN ZeroStats
    ELSE LET o == CHOOSE x \in S : TRUE
             rest == SumStats(S \ {o})
         IN  [Count |-> AddU64(rest.Count, abstractOriginStats[o].Count),
              Bytes |-> AddU64(rest.Bytes, abstractOriginStats[o].Bytes)]

ResultsOf(stats) ==
    { [Name |-> n, Count |-> stats[n].Count, Bytes |-> stats[n].Bytes] : n \in DOMAIN stats }

\* C1: in the range loop and at the end of analyze, the names filed are
\* the names nameForSubprogram returned for the origins visited, each
\* name's (Count, Bytes) is the sum of the statistics of exactly the
\* visited origins with that name, and the result is that table.
C1_NameStatsAreSumsOfOrigins ==
    (pc \in {"resolve", "done"})
    => /\ DOMAIN nameStats = {OriginName(o) : o \in Visited}
       /\ \A n \in DOMAIN nameStats :
              nameStats[n] = SumStats({o \in Visited : OriginName(o) = n})
       /\ (pc = "done")
          => (Visited = DOMAIN abstractOriginStats /\ results = ResultsOf(nameStats))

\* C1's case: analyze has returned and two origins share a resolved name.
C1_Witness ==
    /\ pc = "done"
    /\ \E n \in DOMAIN nameStats :
           /\ n # ""
           /\ Cardinality({o \in DOMAIN abstractOriginStats : OriginName(o) = n}) >= 2
           /\ [Name |-> n, Count |-> 2, Bytes |-> nameStats[n].Bytes] \in results

\* An inlined-subroutine DIE that reaches the statistics: it has an origin
\* and its byte extent is found.
Accepted(e) == Has(e.AbstractOrigin) /\ ~bytesForInlinedSubroutine(rangeSizes, e).err

\* Over the DIEs of S, each as often as it was read: how many, and their
\* bytes in uint64.
RECURSIVE CountOver(_)
CountOver(S) ==
    IF S = {} THEN 0
    ELSE LET e == CHOOSE x \in S : TRUE
         IN  AddU64(siteBag[e], CountOver(S \ {e}))

RECURSIVE BytesOver(_)
BytesOver(S) ==
    IF S = {} THEN 0
    ELSE LET e == CHOOSE x \in S : TRUE
         IN  AddU64(siteBag[e] * bytesForInlinedSubroutine(rangeSizes, e).bytes,
                    BytesOver(S \ {e}))

AcceptedSites == {e \in DOMAIN siteBag : Accepted(e)}
SitesOfOrigin(o) == {e \in AcceptedSites : e.AbstractOrigin = {o}}
SitesOfName(n) == {e \in AcceptedSites : OriginName(ValueOf(e.AbstractOrigin)) = n}

\* C2: the statistics depend only on which inlined-subroutine DIEs were
\* read and how often, not on the order of the scan or of the range loop:
\* the per-origin table is the sum over the bag of DIEs read, and so is
\* the final per-name result.
C2_StatsDependOnBagOnly ==
    /\ (pc \in {"scan", "resolve", "done", "crashed"})
       => /\ DOMAIN abstractOriginStats = {o \in Offsets : SitesOfOrigin(o) # {}}
          /\ \A o \in DOMAIN abstractOriginStats :
                 abstractOriginStats[o] = [Count |-> CountOver(SitesOfOrigin(o)),
                                           Bytes |-> BytesOver(SitesOfOrigin(o))]
    /\ (pc = "done")
       => results = { [Name |-> n, Count |-> CountOver(SitesOfName(n)),
                       Bytes |-> BytesOver(SitesOfName(n))] :
                      n \in {OriginName(ValueOf(e.AbstractOrigin)) : e \in AcceptedSites} }

\* C2's case: two different sites of one origin, one sized directly and one
\* through the range table, have been aggregated.
C2_Witness ==
    /\ pc = "done"
    /\ \E e1, e2 \in AcceptedSites :
           /\ e1.AbstractOrigin = e2.AbstractOrigin
           /\ Has(e1.Highpc)
           /\ ~Has(e2.Highpc)
           /\ bytesForInlinedSubroutine(rangeSizes, e2).bytes = 40
           /\ \E r \in results : r.Count = 2 /\ r.Bytes = 48

\* The key reached from o by following specification references, at most
\* k of them.
RECURSIVE Walk(_, _)
Walk(o, k) ==
    IF k = 0 \/ o \notin DOMAIN specs THEN o ELSE Walk(specs[o], k - 1)

\* Where the chain of o ends, if it ends within as many references as the
\* table holds; a key that still has a reference otherwise.
ChainEnd(o) == Walk(o, Cardinality(DOMAIN specs))

ChainCycles(o) == ChainEnd(o) \in DOMAIN specs
ChainEndsNamed(o) == ChainEnd(o) \in DOMAIN names /\ ~ChainCycles(o)
ChainDangles(o) == ChainEnd(o) \notin (DOMAIN names \cup DOMAIN specs)

\* C3 (as claimed): resolving a key whose chain contains a cycle comes
\* back with an error, so the run never dies inside nameForSubprogram with
\* such a key at hand.
C3_CyclicChainReturnsError ==
    ~(pc = "crashed" /\ \E o \in pending : ChainCycles(o))

\* C4: a key whose chain ends, within the table's size, at a declaration
\* with a recorded name resolves to exactly that name without an error,
\* and the range loop files the origin's statistic under it.
C4_ChainResolvesToDirectName ==
    /\ (pc \in {"scan", "resolve", "done"})
       => \A o \in Offsets :
              ChainEndsNamed(o)
              => nameForSubprogram(names, specs, o) = Resolved(names[ChainEnd(o)])
    /\ (pc \in {"resolve", "done"})
       => \A o \in Visited :
              ChainEndsNamed(o) => names[ChainEnd(o)] \in DOMAIN nameStats

\* C4's case: an origin two specification references away from a
\* declaration that has the linkage name "foo" has been aggregated.
C4_Witness ==
    /\ pc = "done"
    /\ \E o \in DOMAIN abstractOriginStats :
           /\ o \in DOMAIN specs
           /\ specs[o] \in DOMAIN specs
           /\ specs[specs[o]] \in DOMAIN names
           /\ names[specs[specs[o]]] = "foo"
           /\ "foo" \in DOMAIN nameStats
           /\ DOMAIN abstractOriginStats = {o}

\* The origins whose chain ends at a recorded name.
NamedOrigins == {o \in DOMAIN abstractOriginStats : ChainEndsNamed(o)}

\* C5 (as claimed): the sites of an origin whose chain dangles add nothing
\* to any entry of the final result: the result is made of the origins
\* that resolve, and of them only.
C5_DanglingOriginExcluded ==
    (pc = "done")
    => results = { [Name |-> n,
                    Count |-> SumStats({o \in NamedOrigins : OriginName(o) = n}).Count,
                    Bytes |-> SumStats({o \in NamedOrigins : OriginName(o) = n}).Bytes] :
                   n \in {OriginName(o) : o \in NamedOrigins} }

\* The inlined-subroutine DIE read in this step of the scan.
SiteRead ==
    CHOOSE e \in InlinedSubroutineEntries : GetOr(siteBag', e, 0) = GetOr(siteBag, e, 0) + 1

SiteWasRead == pc = "scan" /\ ns' = ns + 1

\* The three ways in which a site's byte extent cannot be determined.
ExtentUndetermined(e) ==
    \/ Has(e.Highpc) /\ ValueOf(e.Highpc) < 0
    \/ ~Has(e.Highpc) /\ Has(e.Ranges) /\ ValueOf(e.Ranges) \notin DOMAIN rangeSizes
    \/ ~Has(e.Highpc) /\ ~Has(e.Ranges)

\* C6: a site whose byte extent cannot be determined changes no statistic
\* and the scan goes on; a site with a non-negative direct count and an
\* origin adds one occurrence and that count, ranges reference or not.
C6_UndeterminedExtentSkipped ==
    [][SiteWasRead
       => /\ ExtentUndetermined(SiteRead)
             => /\ UNCHANGED <<abstractOriginStats, nameStats, results>>
                /\ pc' = "scan"
          /\ (/\ Has(SiteRead.Highpc)
              /\ ValueOf(SiteRead.Highpc) >= 0
              /\ Has(SiteRead.AbstractOrigin))
             => LET o == ValueOf(SiteRead.AbstractOrigin)
                    old == GetOr(abstractOriginStats, o, ZeroStats)
                IN  abstractOriginStats' =
                        Put(abstractOriginStats, o,
                            [Count |-> AddU64(old.Count, 1),
                             Bytes |-> AddU64(old.Bytes, ValueOf(SiteRead.Highpc))])]_vars

\* C6's case: one site was skipped for each of the three reasons not
\* applying to the other, and a site with a direct count of 8 and a ranges
\* reference to a list of span 40 was counted with 8 bytes.
C6_Witness ==
    /\ pc = "done"
    /\ \E e1, e2 \in DOMAIN siteBag :
           /\ ExtentUndetermined(e1)
           /\ Has(e1.AbstractOrigin)
           /\ e2.Highpc = {8}
           /\ e2.Ranges = {0}
           /\ GetOr(rangeSizes, 0, 0) = 40
           /\ e2.AbstractOrigin = e1.AbstractOrigin
           /\ abstractOriginStats[ValueOf(e2.AbstractOrigin)] = [Count |-> 1, Bytes |-> 8]

\* The records the decoder has consumed.
Consumed == SubSeq(file.Records, 1, RecordsRead)

\* A record that is neither a base-address selection nor the 0,0 record.
NormalRecord(rec) == rec[1] # MaxAddress(file.Class) /\ rec # <<0, 0>>

Decodable ==
    /\ file.HasRanges
    /\ file.Data \in {"ELFDATA2LSB", "ELFDATA2MSB"}
    /\ file.Class \in {ELFCLASS32, ELFCLASS64}

\* C7 (as claimed): once the decoder has consumed a normal record with
\* end < begin, it has returned a decode error and no table.
C7_ReversedRangeIsFatal ==
    (/\ pc = "parsed"
     /\ \E i \in 1 .. Len(Consumed) :
            NormalRecord(Consumed[i]) /\ Consumed[i][2] < Consumed[i][1])
    => (err # "nil" /\ rangeSizesNil)

\* The section of C8: (0,0), (10,50), (0,0) with 4-byte addresses.
C8_File ==
    MkFile(ELFCLASS32, "ELFDATA2LSB", TRUE, << <<0, 0>>, <<10, 50>>, <<0, 0>> >>, 0)

C8_Decoded == file = C8_File /\ pc = "parsed" /\ err = "nil"

\* C8 (as claimed): the section (0,0), (10,50), (0,0) decodes to {0: 40}.
C8_TableIsZeroTo40 ==
    C8_Decoded => (~rangeSizesNil /\ rangeSizes = (0 :> 40))

\* C8 (amended): the section (0,0), (10,50), (0,0) decodes to {8: 40}: one
\* key, the offset just after the leading end-of-list record, with span 40.
C8_TableIsEightTo40 ==
    C8_Decoded => (~rangeSizesNil /\ rangeSizes = (8 :> 40))

\* C8's case: that section was decoded to the end without a read error.
C8_Witness == C8_Decoded /\ Len(Consumed) = 3

\* A section that is one list: records other than 0,0 and then a single 0,0.
SingleList(recs) ==
    /\ Len(recs) >= 1
    /\ recs[Len(recs)] = <<0, 0>>
    /\ \A i \in 1 .. (Len(recs) - 1) : recs[i] # <<0, 0>>

NormalIndexes(recs) == {i \in 1 .. (Len(recs) - 1) : NormalRecord(recs[i])}
BaseIndexes(recs) == {i \in 1 .. (Len(recs) - 1) : ~NormalRecord(recs[i])}

\* The sum of end - begin over the records at the indexes I, as an integer.
RECURSIVE SumOfSpans(_, _)
SumOfSpans(recs, I) ==
    IF I = {} THEN 0
    ELSE LET i == CHOOSE j \in I : TRUE
         IN  (recs[i][2] - recs[i][1]) + SumOfSpans(recs, I \ {i})

\* An integer as a uint64.
ToU64(n) == ((n % Uint64Modulus) + Uint64Modulus) % Uint64Modulus

C9_ListDecoded == pc = "parsed" /\ err = "nil" /\ Decodable /\ SingleList(file.Records)

\* C9 (as claimed): N >= 0 normal records (each with end >= begin) and
\* M >= 0 base-address selections before one 0,0 record decode to exactly
\* one entry, at offset 0, whose span is the sum of end - begin.
C9_OneEntryForEveryN ==
    (/\ C9_ListDecoded
     /\ \A i \in NormalIndexes(file.Records) : file.Records[i][2] >= file.Records[i][1])
    => /\ ~rangeSizesNil
       /\ DOMAIN rangeSizes = {0}
       /\ rangeSizes[0] = SumOfSpans(file.Records, NormalIndexes(file.Records))

\* C9 (amended): with N >= 1 the table has exactly one entry, at offset 0,
\* whose span is the uint64 sum of end - begin over the N normal records;
\* with N = 0 the table has no entry. Base-address selections add nothing.
C9_OneEntryForPositiveN ==
    C9_ListDecoded
    => /\ ~rangeSizesNil
       /\ IF NormalIndexes(file.Records) = {}
            THEN rangeSizes = EmptyMap
          ELSE /\ DOMAIN rangeSizes = {0}
               /\ rangeSizes[0] = ToU64(SumOfSpans(file.Records, NormalIndexes(file.Records)))

\* C9's case: two ranges with a base-address selection between them.
C9_Witness ==
    /\ C9_ListDecoded
    /\ Len(file.Records) = 4
    /\ NormalRecord(file.Records[1])
    /\ ~NormalRecord(file.Records[2])
    /\ NormalRecord(file.Records[3])
    /\ rangeSizes[0] = 80

\* The reader handed out every record and then nothing: the stream ended
\* on a record boundary.
EndedOnBoundary == Len(Consumed) = Len(file.Records) /\ file.Tail = 0

\* The last read returned a partial record.
EndedInPartialRecord == Len(Consumed) = Len(file.Records) /\ file.Tail # 0

\* C10: the decoder returns the table without an error exactly when the
\* stream ended on a record boundary, and a partial last read gives an
\* error and no table whatever was accumulated.
C10_TableIffRecordBoundary ==
    (pc = "parsed" /\ Decodable)
    => /\ (err = "nil" /\ ~rangeSizesNil) <=> EndedOnBoundary
       /\ EndedInPartialRecord => (err # "nil" /\ rangeSizesNil /\ rangeSizes = EmptyMap)

\* C10's case: a partial record after two ranges that had been accumulated.
C10_Witness ==
    /\ pc = "parsed"
    /\ Decodable
    /\ EndedInPartialRecord
    /\ Len(Consumed) >= 2
    /\ NormalRecord(Consumed[1])
    /\ NormalRecord(Consumed[2])
    /\ err = "read strange number of bytes"

\* The sites read that have an origin o and a non-negative direct count.
DirectSites(o) ==
    {e \in DOMAIN siteBag :
        e.AbstractOrigin = {o} /\ Has(e.Highpc) /\ ValueOf(e.Highpc) >= 0}

\* The direct counts of the DIEs of S, each as often as it was read.
RECURSIVE DirectBytesOver(_)
DirectBytesOver(S) ==
    IF S = {} THEN 0
    ELSE LET e == CHOOSE x \in S : TRUE
         IN  AddU64(siteBag[e] * ValueOf(e.Highpc), DirectBytesOver(S \ {e}))

\* C11: for a file without .debug_ranges the decoder returns no error and
\* a table without entries, analyze goes on to the scan, and the per-origin
\* statistics are made of the sites with a direct byte count and of them
\* only: a site that has only a ranges reference adds nothing.
C11_MissingSectionIsNoError ==
    (~file.HasRanges /\ pc \in {"parsed", "scan", "resolve", "done"})
    => /\ err = "nil"
       /\ rangeSizes = EmptyMap
       /\ rangeSizesNil
       /\ DOMAIN abstractOriginStats = {o \in Offsets : DirectSites(o) # {}}
       /\ \A o \in DOMAIN abstractOriginStats :
              abstractOriginStats[o] = [Count |-> CountOver(DirectSites(o)),
                                        Bytes |-> DirectBytesOver(DirectSites(o))]

\* C11's case: in a file without .debug_ranges, a site with a ranges
\* reference and a site with a direct count of 8, of the same origin, were
\* read, and the result holds one occurrence of 8 bytes.
C11_Witness ==
    /\ pc = "done"
    /\ ~file.HasRanges
    /\ \E e1, e2 \in DOMAIN siteBag :
           /\ ~Has(e1.Highpc) /\ Has(e1.Ranges) /\ Has(e1.AbstractOrigin)
           /\ e2.Highpc = {8} /\ e2.AbstractOrigin = e1.AbstractOrigin
    /\ \E r \in results : r.Count = 1 /\ r.Bytes = 8

\* What the claimed priority records for a subprogram DIE at offset o: the
\* linkage name, else the specification reference, else the plain name,
\* else nothing.
RecordedByPriority(entry, o) ==
    IF Has(entry.Linkage)
      THEN names' = Put(names, o, ValueOf(entry.Linkage)) /\ specs' = specs
    ELSE IF Has(entry.Specification)
      THEN specs' = Put(specs, o, ValueOf(entry.Specification)) /\ names' = names
    ELSE IF Has(entry.Name)
      THEN names' = Put(names, o, ValueOf(entry.Name)) /\ specs' = specs
    ELSE names' = names /\ specs' = specs

\* C12: no offset is ever in both tables, only offsets of DIEs read are in
\* one, and reading a subprogram DIE records its offset by the priority
\* linkage name, specification reference, plain name; a DIE with none of
\* the three is recorded in neither table.
C12_OneTableByPriority ==
    /\ [](/\ (DOMAIN names) \cap (DOMAIN specs) = {}
          /\ (DOMAIN names) \cup (DOMAIN specs) \subseteq 0 .. (nd - 1))
    /\ [][\A entry \in SubprogramEntries :
              ScanSubprogram(entry) => RecordedByPriority(entry, nd)]_vars

\* C12's case: the scan has ended with a linkage name, a specification
\* reference and a plain name recorded for three DIEs.
C12_Witness ==
    /\ pc = "resolve"
    /\ nd = 3
    /\ names = (0 :> "foo" @@ 2 :> "bar")
    /\ specs = (1 :> 0)

\* The final result as a function of the finished tables and the bag of
\* sites read.
ResultsFromTables ==
    { [Name |-> n, Count |-> CountOver(SitesOfName(n)), Bytes |-> BytesOver(SitesOfName(n))] :
      n \in {OriginName(ValueOf(e.AbstractOrigin)) : e \in AcceptedSites} }

\* C13 (as claimed): no statistic holds anything before the scan has
\* reached the end of the stream.
C13_NoStatisticBeforeScanEnd ==
    (abstractOriginStats # EmptyMap \/ nameStats # EmptyMap)
    => pc \in {"resolve", "done", "crashed"}

\* C13 (amended): the range table is final before the scan starts and the
\* declaration tables and the per-origin statistics are final before the
\* first name resolution and the first accumulation into a per-name
\* statistic; the per-origin statistics are accumulated during the scan.
\* The result is a function of the finished tables and the bag of sites,
\* whether or not a site was read before its origin's declaration.
C13_TablesCompleteBeforeResolution ==
    /\ [](nameStats # EmptyMap => pc \in {"resolve", "done", "crashed"})
    /\ []((pc = "done") => results = ResultsFromTables)
    /\ [][/\ (pc \in {"scan", "resolve"} /\ pc' # "failed")
             => UNCHANGED <<rangeSizes, rangeSizesNil>>
          /\ (pc = "resolve") => UNCHANGED <<names, specs, abstractOriginStats>>]_vars

\* C13's case: a site was read, and put in its origin's statistic, before
\* the declaration of its origin.
C13_Witness ==
    /\ pc = "scan"
    /\ \E o \in DOMAIN abstractOriginStats :
           /\ nd <= o
           /\ abstractOriginStats[o].Count = 1

\* A file of the batch has failed: main wrote nothing for it.
SomeFileFailed == \E i \in DOMAIN printed : ~printed[i].Printed

\* C14 (as claimed): a file that cannot be opened or whose analysis returns
\* an error gets no output and main goes on with the next file; once a
\* file has failed the run still does not end before every later file is
\* analyzed and reported; and the result of a file is made of the tables
\* and sites of that file alone.
C14_FailureIsIsolated ==
    /\ [](SomeFileFailed => pc # "crashed")
    /\ []((pc = "done") => results = ResultsFromTables)
    /\ [][(pc = "failed") => (printed' = Append(printed, NoOutput) /\ pc' = "main")]_vars

\* The smaller of two numbers.
Min(a, b) == IF a < b THEN a ELSE b

\* main has just written the results of the file it analyzed.
JustPrinted == pc = "main" /\ printed # <<>> /\ printed[Len(printed)].Printed

\* C15 (as claimed): printSortedResults never fails, whatever the limit,
\* and what it writes for n results and limit L is in descending order of
\* Bytes and has n rows when L = 0 and min(L, n) rows otherwise.
C15_PrintsMinOfLimitAndLength ==
    /\ ~(pc = "crashed" /\ err = "slice bounds out of range")
    /\ JustPrinted
       => LET rows == printed[Len(printed)].Rows
              n == Cardinality(results)
          IN  /\ Len(rows) = IF limit = 0 THEN n ELSE Min(limit, n)
              /\ \A i \in DOMAIN rows : rows[i] \in results
              /\ \A i, j \in DOMAIN rows : i < j => rows[i].Bytes >= rows[j].Bytes

\* The record that starts at byte offset k of the section, by its index.
IndexAt(k) == (k \div RecordSize(file.Class)) + 1

\* Offset k is where a list begins: the start of the section or the offset
\* just after an end-of-list record.
ListBeginsAt(k) ==
    /\ k % RecordSize(file.Class) = 0
    /\ k = 0 \/ (IndexAt(k) - 1 \in 1 .. Len(Consumed) /\ Consumed[IndexAt(k) - 1] = <<0, 0>>)

\* The list that begins at k has a normal record, after base-address
\* selections only.
ListHasNormalRecord(k) ==
    \E j \in IndexAt(k) .. Len(Consumed) :
        /\ NormalRecord(Consumed[j])
        /\ \A i \in IndexAt(k) .. (j - 1) : Consumed[i] # <<0, 0>>

\* C16: every key of the table, while it is built and when it is returned,
\* is a multiple of the record size and is 0 or the offset just after an
\* end-of-list record; it is the offset of the first record of a list that
\* has a normal record, base-address selections at its start included.
C16_KeysAreListStarts ==
    (pc \in {"parse", "parsed"} /\ Decodable /\ ~rangeSizesNil)
    => \A k \in DOMAIN rangeSizes : ListBeginsAt(k) /\ ListHasNormalRecord(k)

\* C16's case: a table was returned with the key 16 for a second list that
\* starts, at offset 16, with a base-address selection.
C16_Witness ==
    /\ pc = "parsed"
    /\ err = "nil"
    /\ file.Class = ELFCLASS32
    /\ DOMAIN rangeSizes = {0, 16}
    /\ ~NormalRecord(file.Records[3])
    /\ file.Records[3] # <<0, 0>>
    /\ NormalRecord(file.Records[4])

\* A section that is one list whose normal records, at least one, all have
\* begin = end.
ZeroLengthList(recs) ==
    /\ SingleList(recs)
    /\ NormalIndexes(recs) # {}
    /\ \A i \in NormalIndexes(recs) : recs[i][1] = recs[i][2]

\* The site read in this step has an origin and only a ranges reference,
\* to offset 0.
RangesSiteRead ==
    /\ SiteWasRead
    /\ Has(SiteRead.AbstractOrigin)
    /\ ~Has(SiteRead.Highpc)
    /\ SiteRead.Ranges = {0}

\* The file was decoded and analyze is past the decoder.
Analyzing == pc \in {"scan", "resolve", "done"}

\* C17: a list of zero-length ranges leaves the entry 0 -> 0 in the table,
\* a site that refers to it adds one occurrence and no bytes to its
\* origin's statistic, and the result is made of these occurrences.
C17_ZeroLengthListCounts ==
    /\ []((Analyzing /\ ZeroLengthList(file.Records))
          => (rangeSizes = (0 :> 0) /\ ~rangeSizesNil))
    /\ []((pc = "done" /\ ZeroLengthList(file.Records)) => results = ResultsFromTables)
    /\ [][(ZeroLengthList(file.Records) /\ RangesSiteRead)
          => LET o == ValueOf(SiteRead.AbstractOrigin)
                 old == GetOr(abstractOriginStats, o, ZeroStats)
             IN  abstractOriginStats' =
                     Put(abstractOriginStats, o,
                         [Count |-> AddU64(old.Count, 1), Bytes |-> old.Bytes])]_vars

\* C17's case: two sites that refer to a list of zero-length ranges were
\* read and the result has the origin's name with 2 occurrences, 0 bytes.
C17_Witness ==
    /\ pc = "done"
    /\ ZeroLengthList(file.Records)
    /\ \E e \in DOMAIN siteBag :
           /\ ~Has(e.Highpc) /\ e.Ranges = {0} /\ e.AbstractOrigin = {0}
           /\ siteBag[e] = 2
    /\ results = {[Name |-> "foo", Count |-> 2, Bytes |-> 0]}

\* C18: every entry of the per-origin table, of the per-name table and of
\* the result has a Count of at least 1, so a division Bytes / Count of a
\* result never has a zero divisor.
C18_CountsArePositive ==
    /\ \A o \in DOMAIN abstractOriginStats : abstractOriginStats[o].Count >= 1
    /\ \A n \in DOMAIN nameStats : nameStats[n].Count >= 1
    /\ \A r \in results : r.Count >= 1

\* C18's case: a site of origin 1 was skipped, leaving no entry for it,
\* while a site of origin 0 with 0 bytes made an entry, and the result was
\* built.
C18_Witness ==
    /\ pc = "done"
    /\ \E e \in DOMAIN siteBag : e.AbstractOrigin = {1} /\ ExtentUndetermined(e)
    /\ DOMAIN abstractOriginStats = {0}
    /\ \E r \in results : r.Count = 1

\* A section that is one list with no normal record: base-address
\* selections, or nothing, and then the end-of-list record.
ListWithoutNormalRecord(recs) == SingleList(recs) /\ NormalIndexes(recs) = {}

\* C19: a list without a normal record leaves no key in the table, and a
\* site that refers to it changes no statistic, so that nothing is counted
\* for it in the result; a list of zero-length ranges does leave its key.
C19_EmptyListHasNoKey ==
    /\ []((Analyzing /\ ListWithoutNormalRecord(file.Records))
          => (rangeSizes = EmptyMap /\ ~rangeSizesNil))
    /\ []((Analyzing /\ ZeroLengthList(file.Records)) => 0 \in DOMAIN rangeSizes)
    /\ []((pc = "done" /\ ListWithoutNormalRecord(file.Records))
          => results = ResultsOf(nameStats)
             /\ \A o \in DOMAIN abstractOriginStats :
                    abstractOriginStats[o] = [Count |-> CountOver(DirectSites(o)),
                                              Bytes |-> DirectBytesOver(DirectSites(o))])
    /\ [][(ListWithoutNormalRecord(file.Records) /\ RangesSiteRead)
          => (UNCHANGED <<abstractOriginStats, nameStats, results>> /\ pc' = "scan")]_vars

\* C19's case: two sites that refer to a list of a base-address selection
\* and the end-of-list record were read, and the result is empty.
C19_Witness ==
    /\ pc = "done"
    /\ ListWithoutNormalRecord(file.Records)
    /\ Len(file.Records) = 2
    /\ \E e \in DOMAIN siteBag :
           /\ ~Has(e.Highpc) /\ e.Ranges = {0} /\ e.AbstractOrigin = {0}
           /\ siteBag[e] = 2
    /\ 0 \in DOMAIN names
    /\ results = {}

====
